---------------------------- MODULE Spec2Model ----------------------------
(***************************************************************************)
(* jlou: line-delimited JSON-RPC 2.0 over UDP.                             *)
(*   - the `call` client (src/src/command_call.rs): packs request lines    *)
(*     into datagrams of at most buf_size bytes, then counts responses;    *)
(*   - the `echo-server` (src/src/command_echo_server.rs): echoes every    *)
(*     request that carries an id, packing the replies per datagram.       *)
(* Texts are TLA+ strings, one character per byte; a datagram is a string. *)
(***************************************************************************)
EXTENDS Integers, Sequences, FiniteSets, TLC

(***************************************************************************)
(* Bounds of the model.                                                    *)
(***************************************************************************)
MaxLines == 3

MaxDatagramLines == 2

MaxBufSize == 90

MaxTimeout == 2

MaxElapsed == 4

(***************************************************************************)
(* Program constants.                                                      *)
(***************************************************************************)
MAX_UDP_PACKET == 65507

(***************************************************************************)
(* The JSON library (nojson), as far as the program relies on it: parse a  *)
(* text into a value tree, report a value's kind, print a value compactly. *)
(* A value is [kind, text, items]: text is the content of a String or the  *)
(* literal of a number, items the members [name, value] of an Object or    *)
(* the elements of an Array.  The texts of the model hold no string        *)
(* escapes and no exponents.                                               *)
(***************************************************************************)
Ch(s, i) == IF i >= 1 /\ i <= Len(s) THEN SubSeq(s, i, i) ELSE ""

Digits == {"0", "1", "2", "3", "4", "5", "6", "7", "8", "9"}

Whitespace == {" ", "\t", "\r", "\n"}

JsonValue(k, t, xs) == [kind |-> k, text |-> t, items |-> xs]

ParseFail == [ok |-> FALSE, val |-> JsonValue("Null", "", <<>>), next |-> 0]

ParseOk(v, n) == [ok |-> TRUE, val |-> v, next |-> n]

\* the value of F at x, with x computed once
Bind(x, F(_)) == CHOOSE r \in {F(v) : v \in {x}} : TRUE

\* the first position from i on whose character is not in set cs (Len(s) + 1
\* if there is none)
FirstNotIn(s, i, cs) ==
    CHOOSE k \in i..(Len(s) + 1) :
        /\ Ch(s, k) \notin cs
        /\ \A j \in i..(k - 1) : Ch(s, j) \in cs

\* the first position from i on whose character is in set cs, or 0
FirstIn(s, i, cs) ==
    IF \A k \in i..Len(s) : Ch(s, k) \notin cs THEN 0
    ELSE CHOOSE k \in i..Len(s) :
            /\ Ch(s, k) \in cs
            /\ \A j \in i..(k - 1) : Ch(s, j) \notin cs

SkipWs(s, i) == FirstNotIn(s, i, Whitespace)

DigitsEnd(s, i) == FirstNotIn(s, i, Digits)

\* index of the closing quote of the string whose content starts at i; 0 if
\* there is none or an escape or control character comes first
StringEnd(s, i) ==
    Bind(FirstIn(s, i, {"\"", "\\", "\n", "\r", "\t"}), LAMBDA k :
        IF k # 0 /\ Ch(s, k) = "\"" THEN k ELSE 0)

ParseString(s, i) ==
    Bind(StringEnd(s, i + 1), LAMBDA e :
        IF e = 0 THEN ParseFail
        ELSE ParseOk(JsonValue("String", SubSeq(s, i + 1, e - 1), <<>>), e + 1))

ParseNumber(s, i) ==
    Bind(IF Ch(s, i) = "-" THEN i + 1 ELSE i, LAMBDA d :
    Bind(DigitsEnd(s, d), LAMBDA e :
        IF e = d THEN ParseFail
        ELSE IF Ch(s, d) = "0" /\ e > d + 1 THEN ParseFail
        ELSE IF Ch(s, e) = "."
             THEN Bind(DigitsEnd(s, e + 1), LAMBDA fe :
                      IF fe = e + 1 THEN ParseFail
                      ELSE ParseOk(JsonValue("Float", SubSeq(s, i, fe - 1), <<>>), fe))
        ELSE ParseOk(JsonValue("Integer", SubSeq(s, i, e - 1), <<>>), e)))

ParseLiteral(s, i, lit, k) ==
    IF i + Len(lit) - 1 <= Len(s) /\ SubSeq(s, i, i + Len(lit) - 1) = lit
    THEN ParseOk(JsonValue(k, lit, <<>>), i + Len(lit))
    ELSE ParseFail

RECURSIVE ParseValue(_, _), ParseMembers(_, _, _), ParseElements(_, _, _)
ParseValue(s, at) ==
    Bind(at, LAMBDA i :
    Bind(Ch(s, i), LAMBDA c :
        IF c = "{" THEN
            Bind(SkipWs(s, i + 1), LAMBDA j :
                IF Ch(s, j) = "}" THEN ParseOk(JsonValue("Object", "", <<>>), j + 1)
                ELSE ParseMembers(s, j, <<>>))
        ELSE IF c = "[" THEN
            Bind(SkipWs(s, i + 1), LAMBDA j :
                IF Ch(s, j) = "]" THEN ParseOk(JsonValue("Array", "", <<>>), j + 1)
                ELSE ParseElements(s, j, <<>>))
        ELSE IF c = "\"" THEN ParseString(s, i)
        ELSE IF c = "-" \/ c \in Digits THEN ParseNumber(s, i)
        ELSE IF c = "n" THEN ParseLiteral(s, i, "null", "Null")
        ELSE IF c = "t" THEN ParseLiteral(s, i, "true", "Boolean")
        ELSE IF c = "f" THEN ParseLiteral(s, i, "false", "Boolean")
        ELSE ParseFail))

\* at is the place of a member's name; sofar holds the members before it
ParseMembers(s, at, sofar) ==
    Bind(at, LAMBDA i :
    Bind(sofar, LAMBDA acc :
        IF Ch(s, i) # "\"" THEN ParseFail
        ELSE
        Bind(ParseString(s, i), LAMBDA n :
            IF ~n.ok THEN ParseFail
            ELSE
            Bind(SkipWs(s, n.next), LAMBDA c :
                IF Ch(s, c) # ":" THEN ParseFail
                ELSE
                Bind(ParseValue(s, SkipWs(s, c + 1)), LAMBDA v :
                    IF ~v.ok THEN ParseFail
                    ELSE
                    Bind(SkipWs(s, v.next), LAMBDA e :
                    Bind(Append(acc, [name |-> n.val.text, value |-> v.val]), LAMBDA all :
                        IF Ch(s, e) = "}"
                        THEN ParseOk(JsonValue("Object", "", all), e + 1)
                        ELSE IF Ch(s, e) = ","
                        THEN ParseMembers(s, SkipWs(s, e + 1), all)
                        ELSE ParseFail)))))))

ParseElements(s, at, sofar) ==
    Bind(sofar, LAMBDA acc :
    Bind(ParseValue(s, at), LAMBDA v :
        IF ~v.ok THEN ParseFail
        ELSE
        Bind(SkipWs(s, v.next), LAMBDA e :
        Bind(Append(acc, v.val), LAMBDA all :
            IF Ch(s, e) = "]" THEN ParseOk(JsonValue("Array", "", all), e + 1)
            ELSE IF Ch(s, e) = "," THEN ParseElements(s, SkipWs(s, e + 1), all)
            ELSE ParseFail))))

\* nojson::RawJson::parse: one value, surrounded by optional whitespace
JsonParse(text) ==
    Bind(text, LAMBDA s :
    Bind(ParseValue(s, SkipWs(s, 1)), LAMBDA v :
        IF v.ok /\ SkipWs(s, v.next) = Len(s) + 1 THEN ParseOk(v.val, v.next)
        ELSE ParseFail))

RECURSIVE JsonText(_), JoinMembers(_, _), JoinElements(_, _)
\* the compact text nojson prints for a value (Display of a raw value)
JsonText(v) ==
    CASE v.kind = "Object" -> "{" \o JoinMembers(v.items, 1) \o "}"
      [] v.kind = "Array"  -> "[" \o JoinElements(v.items, 1) \o "]"
      [] v.kind = "String" -> "\"" \o v.text \o "\""
      [] OTHER             -> v.text

JoinMembers(ms, i) ==
    IF i > Len(ms) THEN ""
    ELSE (IF i > 1 THEN "," ELSE "")
         \o "\"" \o ms[i].name \o "\":" \o JsonText(ms[i].value)
         \o JoinMembers(ms, i + 1)

JoinElements(xs, i) ==
    IF i > Len(xs) THEN ""
    ELSE (IF i > 1 THEN "," ELSE "") \o JsonText(xs[i]) \o JoinElements(xs, i + 1)

(***************************************************************************)
(* Envelope validators.  A validator's result is [ok, id, reason]; id is   *)
(* None or Some(kind, text).                                               *)
(***************************************************************************)
None == [some |-> FALSE, kind |-> "", text |-> ""]

Some(k, t) == [some |-> TRUE, kind |-> k, text |-> t]

Ok(id) == [ok |-> TRUE, id |-> id, reason |-> ""]

Err(r) == [ok |-> FALSE, id |-> None, reason |-> r]

DigitVal(c) == CHOOSE n \in 0..9 : SubSeq("0123456789", n + 1, n + 1) = c

RECURSIVE DigitsLeq(_, _, _)
\* a <= b for two digit strings of equal length, from position i on
DigitsLeq(a, b, i) ==
    IF i > Len(a) THEN TRUE
    ELSE IF DigitVal(Ch(a, i)) < DigitVal(Ch(b, i)) THEN TRUE
    ELSE IF DigitVal(Ch(a, i)) > DigitVal(Ch(b, i)) THEN FALSE
    ELSE DigitsLeq(a, b, i + 1)

\* whether an Integer literal converts to i64 (value.try_into() succeeds)
FitsI64(t) ==
    LET neg == Ch(t, 1) = "-"
        d   == IF neg THEN SubSeq(t, 2, Len(t)) ELSE t
        max == IF neg THEN "9223372036854775808" ELSE "9223372036854775807"
    IN  \/ Len(d) < Len(max)
        \/ Len(d) = Len(max) /\ DigitsLeq(d, max, 1)

\* the "id" arm of the client's validators: RequestId::Number(i64) or ::String
ClientIdArm(st, v) ==
    IF v.kind = "Integer"
    THEN IF FitsI64(v.text)
         THEN [st EXCEPT !.id = Some("Number", v.text)]
         ELSE [st EXCEPT !.err = "integer out of range"]
    ELSE IF v.kind = "String" THEN [st EXCEPT !.id = Some("String", v.text)]
    ELSE [st EXCEPT !.err = "id must be an integer or string"]

\* the "id" arm of the server's validator: the raw value is kept
ServerIdArm(st, v) ==
    IF v.kind \notin {"Integer", "String"}
    THEN [st EXCEPT !.err = "id must be an integer or string"]
    ELSE [st EXCEPT !.id = Some(v.kind, v.text)]

IdArm(who, st, v) == IF who = "client" THEN ClientIdArm(st, v) ELSE ServerIdArm(st, v)

\* one iteration of the member loop of a request validator
RequestMember(who, st, m) ==
    CASE m.name = "jsonrpc" ->
            IF m.value.kind # "String" THEN [st EXCEPT !.err = "expected a string"]
            ELSE IF m.value.text # "2.0"
                 THEN [st EXCEPT !.err = "jsonrpc version must be '2.0'"]
            ELSE [st EXCEPT !.has_jsonrpc = TRUE]
      [] m.name = "id" -> IdArm(who, st, m.value)
      [] m.name = "method" ->
            IF m.value.kind # "String"
            THEN [st EXCEPT !.err = "method must be a string"]
            ELSE [st EXCEPT !.has_method = TRUE]
      [] m.name = "params" ->
            IF m.value.kind \notin {"Object", "Array"}
            THEN [st EXCEPT !.err = "params must be an object or array"]
            ELSE st
      [] OTHER -> st

\* one iteration of the member loop of the response validator
ResponseMember(st, m) ==
    CASE m.name = "jsonrpc" ->
            IF m.value.kind # "String" THEN [st EXCEPT !.err = "expected a string"]
            ELSE IF m.value.text # "2.0"
                 THEN [st EXCEPT !.err = "jsonrpc version must be '2.0'"]
            ELSE [st EXCEPT !.has_jsonrpc = TRUE]
      [] m.name = "id" -> ClientIdArm(st, m.value)
      [] m.name \in {"result", "error"} -> [st EXCEPT !.has_result_or_error = TRUE]
      [] OTHER -> st

ScanInit ==
    [has_jsonrpc |-> FALSE, has_method |-> FALSE, has_result_or_error |-> FALSE,
     id |-> None, err |-> ""]

RECURSIVE RequestScan(_, _, _, _)
\* the member loop: stops at the first member that is in error
RequestScan(who, ms, i, st) ==
    IF i > Len(ms) \/ st.err # "" THEN st
    ELSE RequestScan(who, ms, i + 1, RequestMember(who, st, ms[i]))

RECURSIVE ResponseScan(_, _, _)
ResponseScan(ms, i, st) ==
    IF i > Len(ms) \/ st.err # "" THEN st
    ELSE ResponseScan(ms, i + 1, ResponseMember(st, ms[i]))

ValidateRequest(who, value) ==
    IF value.kind = "Array" THEN Err("batch requests are not supported")
    ELSE IF value.kind # "Object" THEN Err("expected an object")
    ELSE LET st == RequestScan(who, value.items, 1, ScanInit)
         IN  IF st.err # "" THEN Err(st.err)
             ELSE IF ~st.has_jsonrpc THEN Err("jsonrpc field is required")
             ELSE IF ~st.has_method THEN Err("method field is required")
             ELSE Ok(st.id)

\* Request::validate_request_and_parse_id (client)
validate_request_and_parse_id(value) == ValidateRequest("client", value)

\* variant: a request without an id is answered as if its id were null
parse_request_NullId(value) ==
    Bind(ValidateRequest("server", value), LAMBDA r :
        IF r.ok /\ ~r.id.some THEN Ok(Some("Null", "null")) ELSE r)

\* parse_request (echo server)
parse_request(value) == ValidateRequest("server", value)

\* validate_json_rpc_request (utils.rs): the same text as parse_request
validate_json_rpc_request(value) == ValidateRequest("utils", value)

\* Response::validate_response_and_parse_id (client)
validate_response_and_parse_id(value) ==
    IF value.kind = "Array" THEN Err("batch responses are not supported")
    ELSE IF value.kind # "Object" THEN Err("expected an object")
    ELSE LET st == ResponseScan(value.items, 1, ScanInit)
         IN  IF st.err # "" THEN Err(st.err)
             ELSE IF ~st.has_jsonrpc THEN Err("jsonrpc field is required")
             ELSE IF ~st.has_result_or_error
                  THEN Err("result or error field is required")
             ELSE Ok(st.id)

\* variant: a line that does not parse is skipped as if it were a notification
RequestParse_Lenient(json_text) ==
    LET json == JsonParse(json_text)
    IN  IF ~json.ok THEN Ok(None)
        ELSE validate_request_and_parse_id(json.val)

\* Request::parse: the JSON parse, then the validator
RequestParse(json_text) ==
    LET json == JsonParse(json_text)
    IN  IF ~json.ok THEN Err("parse error")
        ELSE validate_request_and_parse_id(json.val)

\* Response::parse
ResponseParse(json_text) ==
    LET json == JsonParse(json_text)
    IN  IF ~json.ok THEN Err("parse error")
        ELSE validate_response_and_parse_id(json.val)

(***************************************************************************)
(* Text helpers of the standard library.                                   *)
(***************************************************************************)
Min(a, b) == IF a <= b THEN a ELSE b

\* the first position >= i of character c in s, or 0
IndexOf(s, c, i) == FirstIn(s, i, {c})

RECURSIVE SplitNl(_)
\* s split on '\n': one more piece than there are '\n' in s
SplitNl(text) ==
    Bind(text, LAMBDA s :
    Bind(IndexOf(s, "\n", 1), LAMBDA n :
        IF n = 0 THEN <<s>>
        ELSE <<SubSeq(s, 1, n - 1)>> \o SplitNl(SubSeq(s, n + 1, Len(s)))))

StripCr(l) == IF Len(l) > 0 /\ Ch(l, Len(l)) = "\r" THEN SubSeq(l, 1, Len(l) - 1) ELSE l

RECURSIVE StrLines(_)
\* str::lines(): lines end at "\n" or "\r\n"; a final line ending adds no line
StrLines(text) ==
    Bind(text, LAMBDA s :
    Bind(IndexOf(s, "\n", 1), LAMBDA n :
        IF s = "" THEN <<>>
        ELSE IF n = 0 THEN <<s>>
        ELSE <<StripCr(SubSeq(s, 1, n - 1))>> \o StrLines(SubSeq(s, n + 1, Len(s)))))

\* the character that stands for a byte sequence that is not UTF-8
NonUtf8 == "\f"

IsUtf8(s) == IndexOf(s, NonUtf8, 1) = 0

RECURSIVE Flatten(_)
Flatten(ss) == IF ss = <<>> THEN <<>> ELSE Head(ss) \o Flatten(Tail(ss))

RECURSIVE JoinNl(_)
JoinNl(ls) ==
    IF Len(ls) = 0 THEN ""
    ELSE IF Len(ls) = 1 THEN ls[1]
    ELSE ls[1] \o "\n" \o JoinNl(Tail(ls))

(***************************************************************************)
(* The texts the environment feeds the programs.                           *)
(***************************************************************************)
REQ_CALL == "{\"jsonrpc\":\"2.0\",\"method\":\"m\",\"id\":1}"

REQ_NOTIFY == "{\"jsonrpc\":\"2.0\",\"method\":\"m\"}"

REQ_PING == "{\"jsonrpc\":\"2.0\",\"method\":\"ping\",\"id\":\"abc\"}"

REQ_BATCH == "[1,2]"

REQ_NULL_ID == "{\"jsonrpc\":\"2.0\",\"method\":\"m\",\"id\":null}"

REQ_MALFORMED == "{\"jsonrpc\":"

\* the lines standard input may hold
InputLines == {REQ_CALL, REQ_NOTIFY, REQ_PING, REQ_BATCH, REQ_MALFORMED}

\* what socket.send / socket.send_to may report: all bytes sent, an error,
\* or fewer bytes than asked
SendOutcomes == {"ok", "err", "short"}

\* the capacities the command line may give: none, too small for any request,
\* one request exactly, one 30-byte request but not two (50), two requests
\* exactly and one byte less, a larger one, the largest allowed and one more
BufSizes ==
    {0, 1, Len(REQ_NOTIFY), Len(REQ_CALL), 50,
     Len(REQ_CALL) + Len(REQ_NOTIFY), Len(REQ_CALL) + 1 + Len(REQ_NOTIFY),
     MaxBufSize, MAX_UDP_PACKET, MAX_UDP_PACKET + 1}

\* Request::parse of every input line (a text's parse does not depend on the
\* state: it is computed once)
RequestOf == [l \in InputLines |-> RequestParse(l)]

\* the read timeouts the command line may give, in ticks
Timeouts == 0..MaxTimeout

(***************************************************************************)
(* The channel between one client and the echo server: the datagrams the   *)
(* client sent are c_sent, net_taken of them have reached the server;      *)
(* net_replies are the reply datagrams the server sent, net_delivered of   *)
(* them have reached the client.                                           *)
(***************************************************************************)
VARIABLES net_taken, net_replies, net_delivered

nvars == <<net_taken, net_replies, net_delivered>>

NetInit ==
    /\ net_taken = 0
    /\ net_replies = <<>>
    /\ net_delivered = 0

(***************************************************************************)
(* The client: CallCommand::run.                                           *)
(***************************************************************************)
VARIABLES
    c_pc,               \* "start", "send", "recv", "done", "error"
    c_err,              \* why the run ended in error
    buf_size,           \* CallCommand.buf_size
    timeout,            \* CallCommand.timeout, in ticks
    c_socket,           \* whether the socket is bound and connected
    c_input,            \* the lines read from standard input so far
    send_buf,           \* the send buffer
    c_sent,             \* the datagrams handed to socket.send, in order
    pending_responses,
    received,
    c_output,           \* the response lines written to the output
    c_wait,             \* ticks spent in the current socket.recv call
    c_elapsed           \* ticks since the receive phase started

cvars == <<c_pc, c_err, buf_size, timeout, c_socket, c_input, send_buf, c_sent,
           pending_responses, received, c_output, c_wait, c_elapsed>>

VARIABLES
    srv_pc,             \* "start", "recv", "lines", "end", "error"
    send_buf_size,      \* the configured capacity of the reply buffer
    srv_socket,         \* whether the socket is bound
    srv_peer,           \* peer_addr of the datagram being processed
    srv_lines,          \* text.lines() of the datagram being processed
    srv_i,              \* the index of the next line to process
    srv_send_buf,       \* the reply buffer's bytes before send_buf_offset
    send_buf_offset,
    srv_wire            \* what was handed to send_to for the current datagram:
                        \* [to, data, kind, code, outcome, line]

svars == <<srv_pc, send_buf_size, srv_socket, srv_peer, srv_lines, srv_i, srv_send_buf,
           send_buf_offset, srv_wire>>

\* a request validated by both commands' validators
VARIABLES
    v_pc,               \* "input", "done"
    v_value,            \* the parsed JSON value handed to the validators
    v_client,           \* the result of validate_request_and_parse_id
    v_server,           \* the result of parse_request
    v_utils             \* the result of validate_json_rpc_request

vvars == <<v_pc, v_value, v_client, v_server, v_utils>>

ClientInit ==
    /\ c_pc = "start"
    /\ c_err = ""
    /\ buf_size = 0
    /\ timeout = 0
    /\ c_socket = FALSE
    /\ c_input = <<>>
    /\ send_buf = ""
    /\ c_sent = <<>>
    /\ pending_responses = 0
    /\ received = 0
    /\ c_output = <<>>
    /\ c_wait = 0
    /\ c_elapsed = 0

ClientFail(why) == c_pc' = "error" /\ c_err' = why

\* variant: the ceiling of the capacity is not checked
ClientConfigError_NoCeiling(b, t) ==
    IF b = 0 THEN "buf-size must be greater than 0"
    ELSE IF t = 0 THEN "timeout must be greater than 0"
    ELSE ""

\* run, lines 65-75: the configuration checks; "" if the configuration passes
ClientConfigError(b, t) ==
    IF b = 0 THEN "buf-size must be greater than 0"
    ELSE IF b > MAX_UDP_PACKET THEN "buf-size too large"
    ELSE IF t = 0 THEN "timeout must be greater than 0"
    ELSE ""

\* run, lines 64-86: the configuration checks, then the socket
ClientStart(b, t) ==
    /\ c_pc = "start"
    /\ buf_size' = b
    /\ timeout' = t
    /\ IF ClientConfigError(b, t) # ""
       THEN ClientFail(ClientConfigError(b, t)) /\ c_socket' = FALSE
       ELSE c_pc' = "send" /\ c_socket' = TRUE /\ UNCHANGED c_err
    /\ UNCHANGED <<c_input, send_buf, c_sent, pending_responses, received,
                   c_output, c_wait, c_elapsed>>
    /\ UNCHANGED <<svars, vvars>>

\* variant: the separator's byte is left out of the sum
NeedsFlush_NoSeparator(buf, request_len, cap) == Len(buf) + request_len > cap

\* variant: an entry that fills the buffer exactly is flushed for too
NeedsFlush_OrEqual(buf, request_len, cap) ==
    LET extra == IF buf = "" THEN 0 ELSE 1
    IN  Len(buf) + extra + request_len >= cap

\* whether the packer must flush before it appends an entry of request_len bytes
NeedsFlush(buf, request_len, cap) ==
    LET extra == IF buf = "" THEN 0 ELSE 1
    IN  Len(buf) + extra + request_len > cap

\* variant: the entry is put before the entries the buffer holds
AppendEntry_Prepend(buf, request_text) ==
    IF buf # "" THEN request_text \o "\n" \o buf ELSE request_text

\* variant: the entry is appended without the separator
AppendEntry_NoSeparator(buf, request_text) == buf \o request_text

\* lines 105-108: the separator, then the entry
AppendEntry(buf, request_text) ==
    IF buf # "" THEN buf \o "\n" \o request_text ELSE request_text

\* variant: every request is counted, notifications too
CountPending_Always(pending, request) == pending + 1

\* lines 110-112: a request with an id expects a response
CountPending(pending, request) ==
    IF request.id.some THEN pending + 1 ELSE pending

\* run, lines 88-113: one iteration of the loop over the input lines; o is what
\* socket.send reports if the iteration flushes
ClientLine(line, o) ==
    /\ c_pc = "send"
    /\ Len(c_input) < MaxLines
    /\ c_input' = Append(c_input, line)
    /\ LET request == RequestOf[line]
           request_text == line
           request_len == Len(request_text)
           flush == NeedsFlush(send_buf, request_len, buf_size)
       IN  IF ~request.ok
           THEN /\ o = "ok"
                /\ ClientFail(request.reason)
                /\ UNCHANGED <<send_buf, c_sent, pending_responses>>
           ELSE IF request_len > buf_size
           THEN /\ o = "ok"
                /\ ClientFail("request size exceeds buf-size")
                /\ UNCHANGED <<send_buf, c_sent, pending_responses>>
           ELSE IF flush /\ o # "ok"
           THEN /\ ClientFail("send failed")
                /\ c_sent' = Append(c_sent, send_buf)
                /\ UNCHANGED <<send_buf, pending_responses>>
           ELSE /\ flush \/ o = "ok"
                /\ c_sent' = IF flush THEN Append(c_sent, send_buf) ELSE c_sent
                /\ send_buf' = AppendEntry(IF flush THEN "" ELSE send_buf, request_text)
                /\ pending_responses' = CountPending(pending_responses, request)
                /\ UNCHANGED <<c_pc, c_err>>
    /\ UNCHANGED <<buf_size, timeout, c_socket, received, c_output, c_wait, c_elapsed>>
    /\ UNCHANGED <<svars, vvars>>

\* variant: the receive phase is entered whatever the count
NextPhase_Always(pending) == "recv"

\* lines 119-124: receive_responses is called only if a response is pending
NextPhase(pending) == IF pending > 0 THEN "recv" ELSE "done"

\* run, lines 115-124: end of input: the final flush, then the receive phase
\* if a response is pending
ClientEof(o) ==
    /\ c_pc = "send"
    /\ IF send_buf # "" /\ o # "ok"
       THEN /\ ClientFail("send failed")
            /\ c_sent' = Append(c_sent, send_buf)
            /\ UNCHANGED send_buf
       ELSE /\ send_buf # "" \/ o = "ok"
            /\ c_sent' = IF send_buf # "" THEN Append(c_sent, send_buf) ELSE c_sent
            /\ send_buf' = ""
            /\ c_pc' = NextPhase(pending_responses)
            /\ UNCHANGED c_err
    /\ UNCHANGED <<buf_size, timeout, c_socket, c_input, pending_responses,
                   received, c_output, c_wait, c_elapsed>>
    /\ UNCHANGED <<svars, vvars>>

\* reply_err, lines 49-59: the text of an error reply; its id is null
ErrorReplyText(code, message) ==
    "{\"jsonrpc\":\"2.0\",\"id\":null,\"error\":{\"code\":" \o code
        \o ",\"message\":\"" \o message \o "\"}}"

\* variant: the response is built without the id member
ResponseText_NoId(id, json) ==
    "{\"jsonrpc\":\"2.0\",\"result\":" \o JsonText(json) \o "}"

\* command_echo_server.rs, lines 93-98: the response to a request: its id, and the request as the result
ResponseText(id, json) ==
    "{\"jsonrpc\":\"2.0\",\"id\":" \o JsonText(JsonValue(id.kind, id.text, <<>>))
        \o ",\"result\":" \o JsonText(json) \o "}"

RESP_OK == "{\"jsonrpc\":\"2.0\",\"id\":1,\"result\":0}"

RESP_ERR == ErrorReplyText("-32600", "batch requests are not supported")

\* the datagrams that may arrive at the client's socket
ArrivingDatagrams ==
    {"", "\n", RESP_OK, RESP_OK \o "\n" \o RESP_OK, RESP_OK \o "\n\n", RESP_ERR,
     "x", NonUtf8}

\* the lines standard input holds in an end-to-end run: valid requests only
E2ELines == {REQ_CALL, REQ_NOTIFY, REQ_PING}

\* the response the echo server builds for the call in line l
E2EEcho(l) ==
    Bind(JsonParse(l), LAMBDA json :
        ResponseText(parse_request(json.val).id, json.val))

ECHO_CALL == E2EEcho(REQ_CALL)

ECHO_PING == E2EEcho(REQ_PING)

\* the capacities of the client and of the server in an end-to-end run
E2EBufSizes == {Len(ECHO_CALL), MaxBufSize, 2 * Len(ECHO_CALL) + 1}

E2ESendBufSizes == {Len(ECHO_CALL), 2 * Len(ECHO_CALL) + 1, MAX_UDP_PACKET}

\* the datagrams the client may pack from E2ELines, and the reply datagrams
\* the server may pack from their echoes
E2ERequestDatagrams ==
    {JoinNl(ls) : ls \in UNION {[1..n -> E2ELines] : n \in 1..MaxLines}}

E2EReplyDatagrams ==
    {JoinNl(ls) : ls \in UNION {[1..n -> {ECHO_CALL, ECHO_PING}] : n \in 1..MaxLines}}

Range(f) == {f[i] : i \in DOMAIN f}

\* what socket.recv leaves of datagram d in a receive buffer of b bytes
Cut(d, b) == SubSeq(d, 1, Min(Len(d), b))

\* std::str::from_utf8 and str::lines of every text socket.recv may return
\* (computed once)
Decoded ==
    [t \in {Cut(d, b) : d \in ArrivingDatagrams, b \in BufSizes}
            \cup {Cut(d, b) : d \in E2EReplyDatagrams, b \in E2EBufSizes}
        |-> [utf8 |-> IsUtf8(t), lines |-> StrLines(t)]]

\* Response::parse of every line that may arrive (computed once)
ResponseOf ==
    [l \in UNION {Range(Decoded[t].lines) : t \in DOMAIN Decoded} |-> ResponseParse(l)]

RECURSIVE ResponseLines(_, _, _)
\* receive_responses, lines 171-178: the loop over the lines of one datagram;
\* st is [out, received, err] and a malformed line ends the loop
ResponseLines(lines, i, st) ==
    IF i > Len(lines) \/ st.err # "" THEN st
    ELSE IF lines[i] = "" THEN ResponseLines(lines, i + 1, st)
    ELSE LET response == ResponseOf[lines[i]]
         IN  IF ~response.ok
             THEN [st EXCEPT !.err = response.reason]
             ELSE ResponseLines(lines, i + 1,
                     [st EXCEPT !.out = Append(@, lines[i]), !.received = @ + 1])

\* receive_responses, lines 152-179: one iteration of the while loop in which
\* socket.recv returns datagram d, cut to the receive buffer's buf_size bytes
ClientRecv(d) ==
    /\ c_pc = "recv"
    /\ c_wait < timeout
    /\ LET bytes_read == Min(Len(d), buf_size)
           text == Cut(d, buf_size)
           st == ResponseLines(Decoded[text].lines, 1,
                               [out |-> c_output, received |-> received, err |-> ""])
       IN  IF bytes_read = 0
           THEN UNCHANGED <<c_pc, c_err, received, c_output>>
           ELSE IF ~Decoded[text].utf8
           THEN ClientFail("invalid utf-8") /\ UNCHANGED <<received, c_output>>
           ELSE /\ c_output' = st.out
                /\ received' = st.received
                /\ IF st.err # "" THEN ClientFail(st.err)
                   ELSE /\ c_pc' = IF st.received < pending_responses
                                   THEN "recv" ELSE "done"
                        /\ UNCHANGED c_err
    /\ c_wait' = 0
    /\ UNCHANGED <<buf_size, timeout, c_socket, c_input, send_buf, c_sent,
                   pending_responses, c_elapsed>>
    /\ UNCHANGED <<svars, vvars>>

\* a tick passes while socket.recv blocks
ClientTick ==
    /\ c_pc = "recv"
    /\ c_wait < timeout
    /\ c_elapsed < MaxElapsed
    /\ c_wait' = c_wait + 1
    /\ c_elapsed' = c_elapsed + 1
    /\ UNCHANGED <<c_pc, c_err, buf_size, timeout, c_socket, c_input, send_buf,
                   c_sent, pending_responses, received, c_output>>
    /\ UNCHANGED <<svars, vvars>>

\* receive_responses, lines 155-162: socket.recv gives up after the read timeout
ClientRecvTimeout ==
    /\ c_pc = "recv"
    /\ c_wait = timeout
    /\ ClientFail("timed out waiting for responses")
    /\ UNCHANGED <<buf_size, timeout, c_socket, c_input, send_buf, c_sent,
                   pending_responses, received, c_output, c_wait, c_elapsed>>
    /\ UNCHANGED <<svars, vvars>>

ClientNext ==
    \/ \E b \in BufSizes, t \in Timeouts : ClientStart(b, t) /\ UNCHANGED nvars
    \/ \E line \in InputLines, o \in SendOutcomes : ClientLine(line, o) /\ UNCHANGED nvars
    \/ \E o \in SendOutcomes : ClientEof(o) /\ UNCHANGED nvars
    \/ \E d \in ArrivingDatagrams : ClientRecv(d) /\ UNCHANGED nvars
    \/ ClientTick /\ UNCHANGED nvars
    \/ ClientRecvTimeout /\ UNCHANGED nvars

(***************************************************************************)
(* The echo server: try_run and run of command_echo_server.rs.             *)
(***************************************************************************)
REQ_SPACED == "{\"jsonrpc\": \"2.0\", \"method\": \"m\", \"id\": 2}"

\* the lines a datagram sent to the server may hold
ServerLines == {REQ_CALL, REQ_NOTIFY, REQ_BATCH, REQ_MALFORMED, ""}

\* the datagrams that may arrive at the server's socket
ServerDatagrams ==
    {JoinNl(ls) : ls \in UNION {[1..n -> ServerLines] : n \in 1..MaxDatagramLines}}
        \cup {"", NonUtf8, REQ_SPACED, REQ_PING,
              REQ_CALL \o "\r\n" \o REQ_CALL \o "\n",
              JoinNl(<<REQ_CALL, REQ_PING>>),
              JoinNl(<<REQ_CALL, REQ_BATCH, REQ_CALL>>),
              JoinNl(<<REQ_CALL, REQ_CALL, REQ_CALL>>)}

Peers == {"peer1", "peer2"}

RESPONSE_TOO_LARGE == "response size exceeds maximum UDP packet size"

\* the capacities the command line may give the server
SendBufSizes ==
    {0, 1, Len(ResponseText(Some("Integer", "1"), JsonParse(REQ_CALL).val)),
     2 * Len(ResponseText(Some("Integer", "1"), JsonParse(REQ_CALL).val)),
     2 * Len(ResponseText(Some("Integer", "1"), JsonParse(REQ_CALL).val)) + 1,
     MAX_UDP_PACKET, MAX_UDP_PACKET + 1}

\* what the loop body computes from one line, lines 81-100: the JSON parse,
\* parse_request and the response text (computed once for every line)
LineOf ==
    [l \in UNION {Range(StrLines(d)) : d \in ServerDatagrams} |->
        LET json == JsonParse(l)
            req == IF json.ok THEN parse_request(json.val) ELSE Err("parse error")
        IN  [parsed |-> json.ok,
             request |-> req,
             response |-> IF req.ok /\ req.id.some
                          THEN ResponseText(req.id, json.val) ELSE ""]]

\* std::str::from_utf8 and str::lines of every datagram (computed once)
ServerDecoded ==
    [d \in ServerDatagrams \cup E2ERequestDatagrams |-> [utf8 |-> IsUtf8(d), lines |-> StrLines(d)]]

ServerInit ==
    /\ srv_pc = "start"
    /\ send_buf_size = 0
    /\ srv_socket = FALSE
    /\ srv_peer = ""
    /\ srv_lines = <<>>
    /\ srv_i = 1
    /\ srv_send_buf = ""
    /\ send_buf_offset = 0
    /\ srv_wire = <<>>

\* try_run, lines 23-39: send-buf-size is a NonZeroUsize (0 does not parse) of
\* at most MAX_UDP_PACKET
ServerConfigError(s) ==
    IF s = 0 THEN "send-buf-size: not a non-zero integer"
    ELSE IF s > MAX_UDP_PACKET THEN "send-buf-size too large"
    ELSE ""

\* try_run, lines 23-41, then run, lines 64-66: the configuration checks, then
\* the socket is bound
ServerStart(s) ==
    /\ srv_pc = "start"
    /\ send_buf_size' = s
    /\ srv_pc' = IF ServerConfigError(s) # "" THEN "error" ELSE "recv"
    /\ srv_socket' = (ServerConfigError(s) = "")
    /\ UNCHANGED <<srv_peer, srv_lines, srv_i, srv_send_buf, send_buf_offset, srv_wire>>
    /\ UNCHANGED <<cvars, vvars>>

\* reply_err: the datagram handed to send_to; o is what send_to reports, i the
\* line it answers (0: the whole datagram)
ErrorDatagram(addr, code, message, o, i) ==
    [to |-> addr, data |-> ErrorReplyText(code, message), kind |-> "error",
     code |-> code, outcome |-> o, line |-> i]

\* variant: the reply buffer goes to a remembered peer, not the datagram's
ReplyDatagram_FirstPeer(addr, data, o, i) ==
    [to |-> "peer1", data |-> data, kind |-> "reply", code |-> "", outcome |-> o,
     line |-> i]

\* a flush of the reply buffer, lines 112 and 129
ReplyDatagram(addr, data, o, i) ==
    [to |-> addr, data |-> data, kind |-> "reply", code |-> "", outcome |-> o,
     line |-> i]

\* run, lines 68-79: recv_from returns datagram d from peer; o is what send_to
\* reports if an error reply is sent
ServerRecv(d, peer, o) ==
    /\ srv_pc = "recv"
    /\ IF Len(d) = 0
       THEN /\ o = "ok"
            /\ UNCHANGED <<srv_pc, srv_peer, srv_lines, srv_wire>>
       ELSE IF ~ServerDecoded[d].utf8
       THEN /\ srv_wire' = <<ErrorDatagram(peer, "-32700", "invalid utf-8", o, 0)>>
            /\ srv_peer' = peer
            /\ srv_pc' = "end"
            /\ UNCHANGED srv_lines
       ELSE /\ o = "ok"
            /\ srv_peer' = peer
            /\ srv_lines' = ServerDecoded[d].lines
            /\ srv_pc' = "lines"
            /\ UNCHANGED srv_wire
    /\ UNCHANGED <<send_buf_size, srv_socket, srv_i, srv_send_buf, send_buf_offset>>
    /\ UNCHANGED <<cvars, vvars>>

\* variant: the size of the response is not checked
TooLarge_Never(size, cap) == FALSE

\* variant: a response of exactly the capacity is refused too
TooLarge_OrEqual(size, cap) == size >= cap

\* line 101: the response is larger than the reply buffer
TooLarge(size, cap) == size > cap

\* variant: a short send of the reply buffer is not noticed
FlushFails_ShortIgnored(o) == o = "err"

\* lines 112-115 and 129-132: send_to of the reply buffer failed or sent fewer
\* bytes than the buffer holds
FlushFails(o) == o # "ok"

\* line 111: the reply buffer must be flushed before the response is appended
ServerNeedsFlush(offset, size, cap) == offset # 0 /\ offset + 1 + size > cap

\* run, lines 80-126: one iteration of the loop over the lines; o is what
\* send_to reports if the iteration sends
ServerLine(o) ==
    /\ srv_pc = "lines"
    /\ srv_i <= Len(srv_lines)
    /\ srv_i' = srv_i + 1
    /\ LET l == LineOf[srv_lines[srv_i]]
           size == Len(l.response)
           flush == ServerNeedsFlush(send_buf_offset, size, send_buf_size)
           offset == IF flush THEN 0 ELSE send_buf_offset
       IN  IF ~l.parsed
           THEN /\ srv_wire' = Append(srv_wire,
                      ErrorDatagram(srv_peer, "-32700", "parse error", o, srv_i))
                /\ UNCHANGED <<srv_pc, srv_send_buf, send_buf_offset>>
           ELSE IF ~l.request.ok
           THEN /\ srv_wire' = Append(srv_wire,
                      ErrorDatagram(srv_peer, "-32600", l.request.reason, o, srv_i))
                /\ UNCHANGED <<srv_pc, srv_send_buf, send_buf_offset>>
           ELSE IF ~l.request.id.some
           THEN /\ o = "ok"
                /\ UNCHANGED <<srv_pc, srv_send_buf, send_buf_offset, srv_wire>>
           ELSE IF TooLarge(size, send_buf_size)
           THEN /\ srv_wire' = Append(srv_wire,
                      ErrorDatagram(srv_peer, "-32603", RESPONSE_TOO_LARGE, o, srv_i))
                /\ UNCHANGED <<srv_pc, srv_send_buf, send_buf_offset>>
           ELSE IF flush /\ FlushFails(o)
           THEN /\ srv_wire' = Append(srv_wire,
                      ReplyDatagram(srv_peer, srv_send_buf, o, srv_i))
                /\ srv_pc' = "error"
                /\ UNCHANGED <<srv_send_buf, send_buf_offset>>
           ELSE /\ flush \/ o = "ok"
                /\ srv_wire' = IF flush
                               THEN Append(srv_wire,
                                      ReplyDatagram(srv_peer, srv_send_buf, o, srv_i))
                               ELSE srv_wire
                /\ srv_send_buf' = AppendEntry(IF flush THEN "" ELSE srv_send_buf,
                                               l.response)
                /\ send_buf_offset' = offset + (IF offset # 0 THEN 1 ELSE 0) + size
                /\ UNCHANGED srv_pc
    /\ UNCHANGED <<send_buf_size, srv_socket, srv_peer, srv_lines>>
    /\ UNCHANGED <<cvars, vvars>>

\* run, lines 128-133: after the last line, the rest of the reply buffer is
\* sent
ServerEnd(o) ==
    /\ srv_pc = "lines"
    /\ srv_i > Len(srv_lines)
    /\ IF send_buf_offset # 0
       THEN /\ srv_wire' = Append(srv_wire,
                  ReplyDatagram(srv_peer, srv_send_buf, o, srv_i))
            /\ srv_pc' = IF FlushFails(o) THEN "error" ELSE "end"
       ELSE /\ o = "ok"
            /\ srv_pc' = "end"
            /\ UNCHANGED srv_wire
    /\ UNCHANGED <<send_buf_size, srv_socket, srv_peer, srv_lines, srv_i,
                   srv_send_buf, send_buf_offset>>
    /\ UNCHANGED <<cvars, vvars>>

\* run, lines 67 and 134: the loop starts over; the variables of the finished
\* iteration are gone
ServerLoop ==
    /\ srv_pc = "end"
    /\ srv_pc' = "recv"
    /\ srv_peer' = ""
    /\ srv_lines' = <<>>
    /\ srv_i' = 1
    /\ srv_send_buf' = ""
    /\ send_buf_offset' = 0
    /\ srv_wire' = <<>>
    /\ UNCHANGED <<send_buf_size, srv_socket>>
    /\ UNCHANGED <<cvars, vvars>>

ServerNext ==
    \/ \E s \in SendBufSizes : ServerStart(s) /\ UNCHANGED nvars
    \/ \E d \in ServerDatagrams, peer \in Peers, o \in SendOutcomes : ServerRecv(d, peer, o) /\ UNCHANGED nvars
    \/ \E o \in SendOutcomes : ServerLine(o) /\ UNCHANGED nvars
    \/ \E o \in SendOutcomes : ServerEnd(o) /\ UNCHANGED nvars
    \/ ServerLoop /\ UNCHANGED nvars

(***************************************************************************)
(* The request validators, applied to one JSON value.                      *)
(***************************************************************************)
JsonrpcMembers == {"", "\"jsonrpc\":\"2.0\"", "\"jsonrpc\":\"1.0\"", "\"jsonrpc\":2"}

MethodMembers == {"", "\"method\":\"m\"", "\"method\":1"}

\* no id, ids of every kind, the ends of the i64 range and one beyond each,
\* and repeated id members
IdMembers ==
    {"", "\"id\":1", "\"id\":\"a\"", "\"id\":null", "\"id\":1.5", "\"id\":true",
     "\"id\":9223372036854775807", "\"id\":9223372036854775808",
     "\"id\":-9223372036854775808", "\"id\":-9223372036854775809",
     "\"id\":1,\"id\":\"b\"", "\"id\":null,\"id\":1",
     "\"id\":9223372036854775808,\"id\":1"}

ParamsMembers == {"", "\"params\":{}", "\"params\":[1]", "\"params\":1"}

OtherMembers == {"", "\"x\":null"}

RECURSIVE JoinComma(_)
JoinComma(parts) ==
    IF Len(parts) = 0 THEN ""
    ELSE IF Len(parts) = 1 THEN parts[1]
    ELSE parts[1] \o "," \o JoinComma(Tail(parts))

IsNotEmpty(t) == t # ""

\* the text of the object with the given members, in that order
ObjectText(members) == "{" \o JoinComma(SelectSeq(members, IsNotEmpty)) \o "}"

\* the JSON texts whose values are handed to the validators: the objects made
\* of the members above, and values that are no object
ValidatorTexts ==
    {ObjectText(<<j, m, i, p, x>>) :
        j \in JsonrpcMembers, m \in MethodMembers, i \in IdMembers,
        p \in ParamsMembers, x \in OtherMembers}
    \cup {ObjectText(<<i, x, m, j>>) : i \in IdMembers, x \in OtherMembers,
            m \in {"\"method\":\"m\""}, j \in {"\"jsonrpc\":\"2.0\""}}
    \cup {"[1,2]", "[]", "1", "\"s\"", "null", "true", "[" \o REQ_CALL \o "]"}

ValidatorInit ==
    /\ v_pc = "input"
    /\ v_value = JsonValue("Null", "null", <<>>)
    /\ v_client = Err("")
    /\ v_server = Err("")
    /\ v_utils = Err("")

\* the JSON value of text is validated by the client's validator, the
\* server's and the one of utils.rs
Validate(text) ==
    /\ v_pc = "input"
    /\ LET json == JsonParse(text)
       IN  /\ json.ok
           /\ v_value' = json.val
           /\ v_client' = validate_request_and_parse_id(json.val)
           /\ v_server' = parse_request(json.val)
           /\ v_utils' = validate_json_rpc_request(json.val)
    /\ v_pc' = "done"
    /\ UNCHANGED <<cvars, svars>>

ValidatorNext == \E text \in ValidatorTexts : Validate(text) /\ UNCHANGED nvars

vars == <<cvars, svars, vvars, nvars>>

Init == ClientInit /\ ServerInit /\ ValidatorInit /\ NetInit

ValidatorSpec == Init /\ [][ValidatorNext]_vars

ClientSpec == Init /\ [][ClientNext]_vars

ServerSpec == Init /\ [][ServerNext]_vars

\* try_run of command_call.rs, lines 10-16: the process was given the command
\* "call", so the echo server never starts
RunsCall == srv_pc = "start"

\* try_run of command_echo_server.rs, lines 5-16: the process was given the
\* command "echo-server", so the client never starts
RunsEchoServer == c_pc = "start"

\* one process: it runs the command it was given, call or echo-server
Next ==
    \/ \E b \in BufSizes, t \in Timeouts : RunsCall /\ ClientStart(b, t) /\ UNCHANGED nvars
    \/ \E line \in InputLines, o \in SendOutcomes : RunsCall /\ ClientLine(line, o) /\ UNCHANGED nvars
    \/ \E o \in SendOutcomes : RunsCall /\ ClientEof(o) /\ UNCHANGED nvars
    \/ \E d \in ArrivingDatagrams : RunsCall /\ ClientRecv(d) /\ UNCHANGED nvars
    \/ RunsCall /\ ClientTick /\ UNCHANGED nvars
    \/ RunsCall /\ ClientRecvTimeout /\ UNCHANGED nvars
    \/ \E s \in SendBufSizes : RunsEchoServer /\ ServerStart(s) /\ UNCHANGED nvars
    \/ \E d \in ServerDatagrams, peer \in Peers, o \in SendOutcomes :
            RunsEchoServer /\ ServerRecv(d, peer, o) /\ UNCHANGED nvars
    \/ \E o \in SendOutcomes : RunsEchoServer /\ ServerLine(o) /\ UNCHANGED nvars
    \/ \E o \in SendOutcomes : RunsEchoServer /\ ServerEnd(o) /\ UNCHANGED nvars
    \/ RunsEchoServer /\ ServerLoop /\ UNCHANGED nvars

Spec == Init /\ [][Next]_vars

(***************************************************************************)
(* One client run against the echo server over a channel that neither      *)
(* loses, duplicates nor reorders datagrams and on which every send        *)
(* succeeds.  The steps are the steps of the two programs; the channel     *)
(* hands each datagram flush_send_buf sent to recv_from, and each datagram *)
(* send_to sent to socket.recv.                                            *)
(***************************************************************************)

\* the datagrams the server's send_to calls put on the wire in this step
NewReplies ==
    [k \in 1..(Len(srv_wire') - Len(srv_wire)) |-> srv_wire'[Len(srv_wire) + k].data]

\* nothing is in flight and the server waits in recv_from: no datagram will
\* reach the client unless it sends one
Quiescent ==
    /\ srv_pc = "recv"
    /\ net_taken = Len(c_sent)
    /\ net_delivered = Len(net_replies)

\* command_echo_server.rs, line 64: the server is started first, with capacity s
E2EServerStart(s) ==
    /\ c_pc = "start"
    /\ ServerStart(s)
    /\ UNCHANGED nvars

\* command_call.rs, lines 77-86: the client is started with capacity b
E2EClientStart(b) ==
    /\ srv_pc = "recv"
    /\ ClientStart(b, 1)
    /\ UNCHANGED nvars

\* command_call.rs, lines 88-113: the client reads a line, a valid request no
\* longer than its capacity whose echo fits both capacities
E2EClientLine(line) ==
    /\ Len(line) <= buf_size
    /\ Len(LineOf[line].response) <= Min(buf_size, send_buf_size)
    /\ ClientLine(line, "ok")
    /\ UNCHANGED nvars

\* command_call.rs, lines 115-121: end of input
E2EClientEof ==
    /\ ClientEof("ok")
    /\ UNCHANGED nvars

\* command_echo_server.rs, lines 68-79: recv_from returns the next datagram the
\* client sent
E2EServerRecv ==
    /\ net_taken < Len(c_sent)
    /\ ServerRecv(c_sent[net_taken + 1], "peer1", "ok")
    /\ net_taken' = net_taken + 1
    /\ UNCHANGED <<net_replies, net_delivered>>

\* command_echo_server.rs, lines 80-126: the server processes a line
E2EServerLine ==
    /\ ServerLine("ok")
    /\ net_replies' = net_replies \o NewReplies
    /\ UNCHANGED <<net_taken, net_delivered>>

\* command_echo_server.rs, lines 128-133: the flush after the last line
E2EServerEnd ==
    /\ ServerEnd("ok")
    /\ net_replies' = net_replies \o NewReplies
    /\ UNCHANGED <<net_taken, net_delivered>>

E2EServerLoop ==
    /\ ServerLoop
    /\ UNCHANGED nvars

\* command_call.rs, lines 152-179: socket.recv returns the next reply datagram
E2EClientRecv ==
    /\ net_delivered < Len(net_replies)
    /\ ClientRecv(net_replies[net_delivered + 1])
    /\ net_delivered' = net_delivered + 1
    /\ UNCHANGED <<net_taken, net_replies>>

\* command_call.rs, line 153: time passes in socket.recv only when no datagram
\* is on its way
E2EClientTick ==
    /\ Quiescent
    /\ ClientTick
    /\ UNCHANGED nvars

\* command_call.rs, lines 155-162: the read timeout
E2EClientRecvTimeout ==
    /\ Quiescent
    /\ ClientRecvTimeout
    /\ UNCHANGED nvars

E2ENext ==
    \/ \E s \in E2ESendBufSizes : E2EServerStart(s)
    \/ \E b \in E2EBufSizes : E2EClientStart(b)
    \/ \E line \in E2ELines : E2EClientLine(line)
    \/ E2EClientEof
    \/ E2EServerRecv
    \/ E2EServerLine
    \/ E2EServerEnd
    \/ E2EServerLoop
    \/ E2EClientRecv
    \/ E2EClientTick
    \/ E2EClientRecvTimeout

E2ESpec == Init /\ [][E2ENext]_vars

(***************************************************************************)
(* Properties of the client.                                               *)
(***************************************************************************)
\* whether a text is a JSON object with a member named n
HasMember(text, n) ==
    Bind(JsonParse(text), LAMBDA json :
        /\ json.ok
        /\ json.val.kind = "Object"
        /\ \E k \in DOMAIN json.val.items : json.val.items[k].name = n)

\* the input lines whose request carries an id (computed once)
CarriesId == [l \in InputLines |-> HasMember(l, "id")]

SendPhaseDone == c_pc \in {"recv", "done"}

\* C1: no datagram handed to the socket is longer than buf_size, and the send
\* buffer is never longer than buf_size.
C1_DatagramsWithinCapacity ==
    /\ Len(send_buf) <= buf_size
    /\ \A k \in DOMAIN c_sent : Len(c_sent[k]) <= buf_size

\* an intermediate and a final flush happened, one of them of exactly buf_size bytes
C1_Witness ==
    /\ c_pc = "done"
    /\ Len(c_sent) >= 2
    /\ \E k \in DOMAIN c_sent : Len(c_sent[k]) = buf_size

\* C2: once the send phase is over without error, the datagrams sent, each
\* split on '\n' and the pieces put end to end, are the input lines in order.
C2_PackingRoundTrip ==
    SendPhaseDone =>
        Flatten([k \in DOMAIN c_sent |-> SplitNl(c_sent[k])]) = c_input

\* three requests went out in two datagrams
C2_Witness ==
    /\ SendPhaseDone
    /\ Len(c_input) = 3
    /\ Len(c_sent) = 2

\* C3: while no error has occurred, pending_responses is the number of input
\* lines read whose request carries an id.
C3_PendingCount ==
    c_pc \in {"send", "recv", "done"} =>
        pending_responses = Cardinality({k \in DOMAIN c_input : CarriesId[c_input[k]]})

\* a call and a notification were sent: one response is pending
C3_Witness ==
    /\ c_input = <<REQ_CALL, REQ_NOTIFY>>
    /\ c_pc = "recv"
    /\ pending_responses = 1

\* C4: when the receive loop ends successfully, exactly pending_responses
\* response lines were counted and emitted.
C4_StopsAtTarget ==
    (c_pc = "done" /\ pending_responses > 0) =>
        /\ received = pending_responses
        /\ Len(c_output) = pending_responses

\* C10: the receive phase lasts no longer than the timeout, whatever arrives.
C10_HardTimeout ==
    c_pc \in {"recv", "done", "error"} => c_elapsed <= timeout

(***************************************************************************)
(* Properties of the echo server.                                          *)
(***************************************************************************)
MembersNamed(v, n) == {k \in DOMAIN v.items : v.items[k].name = n}

\* the Request Envelope: an object whose jsonrpc members are the string "2.0"
\* and whose method members are strings, at least one of each; its id members
\* are integers or strings and its params members objects or arrays
IsRequestEnvelope(v) ==
    /\ v.kind = "Object"
    /\ MembersNamed(v, "jsonrpc") # {}
    /\ \A k \in MembersNamed(v, "jsonrpc") :
            v.items[k].value.kind = "String" /\ v.items[k].value.text = "2.0"
    /\ MembersNamed(v, "method") # {}
    /\ \A k \in MembersNamed(v, "method") : v.items[k].value.kind = "String"
    /\ \A k \in MembersNamed(v, "id") : v.items[k].value.kind \in {"Integer", "String"}
    /\ \A k \in MembersNamed(v, "params") : v.items[k].value.kind \in {"Object", "Array"}

\* the value of an object's last member named n
LastMember(v, n) ==
    v.items[CHOOSE k \in MembersNamed(v, n) : \A j \in MembersNamed(v, n) : j <= k].value

\* the echo of request v: jsonrpc "2.0", the request's id, the request as result
EchoOf(v) ==
    JsonText(JsonValue("Object", "",
        <<[name |-> "jsonrpc", value |-> JsonValue("String", "2.0", <<>>)],
          [name |-> "id", value |-> LastMember(v, "id")],
          [name |-> "result", value |-> v]>>))

\* what a line is: "malformed" (no JSON), "invalid" (no Request Envelope),
\* "notification" (no id) or "call", and the echo of a call
ClassOf(l) ==
    Bind(JsonParse(l), LAMBDA json :
        IF ~json.ok THEN [class |-> "malformed", echo |-> ""]
        ELSE IF ~IsRequestEnvelope(json.val) THEN [class |-> "invalid", echo |-> ""]
        ELSE IF MembersNamed(json.val, "id") = {}
             THEN [class |-> "notification", echo |-> ""]
        ELSE [class |-> "call", echo |-> EchoOf(json.val)])

\* the class of every line a datagram may hold (computed once)
Class == [l \in UNION {Range(StrLines(d)) : d \in ServerDatagrams} |-> ClassOf(l)]

\* the class of every line standard input may hold (computed once)
InputClass == [l \in InputLines |-> ClassOf(l)]

\* the call at line k of the datagram has an echo that fits the reply buffer
FittingCall(k) ==
    /\ Class[srv_lines[k]].class = "call"
    /\ Len(Class[srv_lines[k]].echo) <= send_buf_size

\* the error code line k of the datagram deserves, or "" if none
ErrorCodeOf(k) ==
    CASE Class[srv_lines[k]].class = "malformed" -> "-32700"
      [] Class[srv_lines[k]].class = "invalid" -> "-32600"
      [] Class[srv_lines[k]].class = "call" /\ ~FittingCall(k) -> "-32603"
      [] OTHER -> ""

IsSentReply(w) == w.kind = "reply" /\ w.outcome = "ok"

\* the entries of the reply datagrams sent for the current datagram, in order
TransmittedEntries ==
    Bind(SelectSeq(srv_wire, IsSentReply), LAMBDA replies :
        Flatten([k \in DOMAIN replies |-> SplitNl(replies[k].data)]))

RECURSIVE EchoesFrom(_)
\* the echoes of the fitting calls among lines k, k + 1, ... of the datagram
EchoesFrom(k) ==
    IF k > Len(srv_lines) THEN <<>>
    ELSE (IF FittingCall(k) THEN <<Class[srv_lines[k]].echo>> ELSE <<>>)
            \o EchoesFrom(k + 1)

\* C5: when a datagram has been processed, the response entries sent for it
\* are, one for one, the echoes of its calls whose echo fits: jsonrpc "2.0",
\* the request's id, the request as the result.
C5_EchoContent ==
    srv_pc = "end" => TransmittedEntries = EchoesFrom(1)

\* the datagram of scenario B was answered with the reply of scenario B
C5_Witness ==
    /\ srv_pc = "end"
    /\ srv_lines = <<REQ_PING>>
    /\ TransmittedEntries =
          <<"{\"jsonrpc\":\"2.0\",\"id\":\"abc\",\"result\":{\"jsonrpc\":\"2.0\",\"method\":\"ping\",\"id\":\"abc\"}}">>

\* C6: every error reply of the server is a response the client's validator
\* accepts.
C6_ErrorRepliesAccepted ==
    \A k \in DOMAIN srv_wire :
        srv_wire[k].kind = "error" => ResponseParse(srv_wire[k].data).ok

\* C7: no datagram of the server, reply buffer or error reply, is longer than
\* send_buf_size, and the write offset stays within the reply buffer.
C7_ServerDatagramsWithinCapacity ==
    /\ send_buf_offset <= send_buf_size
    /\ \A k \in DOMAIN srv_wire : Len(srv_wire[k].data) <= send_buf_size

ErrorsFor(k) == {j \in DOMAIN srv_wire : srv_wire[j].kind = "error" /\ srv_wire[j].line = k}

\* C8: a line in error gets its error reply and nothing else happens to the
\* datagram: the loop goes on to the last line, every fitting call is answered,
\* and only a failed send of the reply buffer ends the server.
C8_ErrorIsolation ==
    /\ (srv_pc = "error" /\ srv_lines # <<>>) =>
            /\ srv_wire[Len(srv_wire)].kind = "reply"
            /\ srv_wire[Len(srv_wire)].outcome # "ok"
    /\ srv_pc \in {"lines", "end"} =>
            \A k \in 1..(srv_i - 1) :
                IF ErrorCodeOf(k) = "" THEN ErrorsFor(k) = {}
                ELSE /\ Cardinality(ErrorsFor(k)) = 1
                     /\ \A j \in ErrorsFor(k) : srv_wire[j].code = ErrorCodeOf(k)
    /\ srv_pc = "end" =>
            /\ srv_i = Len(srv_lines) + 1
            /\ \A k \in DOMAIN srv_lines :
                  FittingCall(k) =>
                      \E j \in DOMAIN TransmittedEntries :
                          TransmittedEntries[j] = Class[srv_lines[k]].echo

\* a datagram with a call, a batch and a call was processed: one error reply
\* and both echoes went out
C8_Witness ==
    /\ srv_pc = "end"
    /\ srv_lines = <<REQ_CALL, REQ_BATCH, REQ_CALL>>
    /\ Cardinality(ErrorsFor(2)) = 1
    /\ Len(TransmittedEntries) = 2

\* C9: processing a notification sends nothing and leaves the reply buffer as
\* it is.
C9_NotificationSilent ==
    [][(/\ srv_pc = "lines"
        /\ srv_i <= Len(srv_lines)
        /\ Class[srv_lines[srv_i]].class = "notification")
       => (/\ srv_wire' = srv_wire
           /\ srv_send_buf' = srv_send_buf
           /\ send_buf_offset' = send_buf_offset)]_vars

\* a notification was processed after a call whose echo is still buffered
C9_Witness ==
    /\ srv_pc = "lines"
    /\ srv_lines = <<REQ_CALL, REQ_NOTIFY>>
    /\ srv_i = 3
    /\ srv_send_buf # ""
    /\ srv_wire = <<>>

(***************************************************************************)
(* Properties of the client's error handling and phases.                   *)
(***************************************************************************)
\* line k of the input is no Request Envelope or is longer than buf_size
BadLine(k) ==
    \/ InputClass[c_input[k]].class \in {"malformed", "invalid"}
    \/ Len(c_input[k]) > buf_size

\* the entries of the datagrams the client handed to socket.send, in order
SentEntries == Flatten([j \in DOMAIN c_sent |-> SplitNl(c_sent[j])])

\* C12: once the client has read a line that is malformed, invalid or longer
\* than buf_size, the run has ended in error: no later line was read, nothing
\* was received or emitted, the datagrams sent hold only lines before it, and
\* no step of the client is possible any more.
C12_FatalInputErrors ==
    \A k \in DOMAIN c_input :
        BadLine(k) =>
            /\ c_pc = "error"
            /\ k = Len(c_input)
            /\ received = 0 /\ c_output = <<>>
            /\ c_wait = 0 /\ c_elapsed = 0
            /\ Len(SentEntries) <= k - 1
            /\ SentEntries = SubSeq(c_input, 1, Len(SentEntries))
            /\ ~ENABLED ClientNext

\* the third line is a batch: the run ended in error with the first line sent
\* and the second still in the send buffer
C12_Witness ==
    /\ c_pc = "error"
    /\ c_input = <<REQ_CALL, REQ_CALL, REQ_BATCH>>
    /\ c_sent = <<REQ_CALL>>
    /\ send_buf = REQ_CALL

\* nothing of the receive phase has happened
NothingReceived ==
    received = 0 /\ c_output = <<>> /\ c_wait = 0 /\ c_elapsed = 0

\* C13: the receive phase is entered exactly when a response is pending at
\* the end of the send phase, with all input read and the send buffer flushed;
\* before that, and in a run of notifications only, no receive happens.
C13_PhaseGating ==
    /\ [](/\ c_pc = "recv" => (pending_responses > 0 /\ send_buf = "")
          /\ c_pc \in {"start", "send"} => NothingReceived
          /\ (c_pc = "done" /\ pending_responses = 0) => NothingReceived)
    /\ [][/\ (c_pc = "send" /\ c_pc' \in {"recv", "done"}) =>
                /\ send_buf' = ""
                /\ c_pc' = "recv" <=> pending_responses > 0
          /\ (NothingReceived /\ ~NothingReceived') => c_pc = "recv"
          /\ c_pc = "recv" => (c_input' = c_input /\ c_sent' = c_sent)]_vars

\* scenario E: the only request was a notification and the run succeeded
\* without a receive
C13_Witness ==
    /\ c_pc = "done"
    /\ c_input = <<REQ_NOTIFY>>
    /\ c_sent = <<REQ_NOTIFY>>
    /\ NothingReceived

(***************************************************************************)
(* Properties of the request validators.                                   *)
(***************************************************************************)
\* result r is what the Request Envelope rules give for value v: accepted
\* exactly if v is a Request Envelope, with its id if it has one
IsValidatorResult(r, v) ==
    /\ r.ok <=> IsRequestEnvelope(v)
    /\ r.ok => IF MembersNamed(v, "id") = {} THEN ~r.id.some
               ELSE /\ r.id.some
                    /\ r.id.text = LastMember(v, "id").text
                    /\ (r.id.kind = "String") <=> (LastMember(v, "id").kind = "String")

\* C14: the request validator of the client and the one of the server accept
\* a value exactly when it is a Request Envelope (an object with jsonrpc the
\* string "2.0", method a string, id absent or an integer or a string, params
\* absent or an object or an array) and return its id if it has one.
C14_ValidatorResult ==
    v_pc = "done" =>
        /\ IsValidatorResult(v_client, v_value)
        /\ IsValidatorResult(v_server, v_value)

\* two validator results carry the same id
SameId(a, b) ==
    /\ a.some <=> b.some
    /\ a.some => /\ a.text = b.text
                 /\ (a.kind = "String") <=> (b.kind = "String")

\* C20: the client's validator and the server's reject the same values and
\* accept the others with the same id.
C20_SameValidator ==
    v_pc = "done" =>
        /\ v_client.ok <=> v_server.ok
        /\ v_client.ok => SameId(v_client.id, v_server.id)

(***************************************************************************)
(* Properties of the configuration of both commands.                       *)
(***************************************************************************)
\* C15: a capacity of 0 or above 65507 (buf-size of the client, send-buf-size
\* of the server) and a client timeout of 0 end the run in error with no
\* socket bound, no datagram sent or received, and nothing more to do.
C15_CapacityConfiguration ==
    /\ (/\ c_pc # "start"
        /\ buf_size = 0 \/ buf_size > 65507 \/ timeout = 0)
            => /\ c_pc = "error"
               /\ ~c_socket
               /\ c_input = <<>> /\ c_sent = <<>> /\ send_buf = ""
               /\ NothingReceived
               /\ ~ENABLED ClientNext
    /\ (/\ srv_pc # "start"
        /\ send_buf_size = 0 \/ send_buf_size > 65507)
            => /\ srv_pc = "error"
               /\ ~srv_socket
               /\ srv_lines = <<>> /\ srv_wire = <<>> /\ send_buf_offset = 0
               /\ ~ENABLED ServerNext

\* the client was given a capacity of 65508 and ended in error
C15_Witness ==
    /\ c_pc = "error"
    /\ buf_size = 65508
    /\ timeout > 0
    /\ ~c_socket

(***************************************************************************)
(* More properties of the echo server.                                     *)
(***************************************************************************)
\* C16: the server sends no reply of any kind for an empty line of a datagram.
C16_EmptyLinesSkipped ==
    \A k \in DOMAIN srv_lines :
        srv_lines[k] = "" => \A j \in DOMAIN srv_wire : srv_wire[j].line # k

\* the current line is a call whose echo is longer than send_buf_size
OversizedCall ==
    /\ srv_pc = "lines"
    /\ srv_i <= Len(srv_lines)
    /\ Class[srv_lines[srv_i]].class = "call"
    /\ Len(Class[srv_lines[srv_i]].echo) > send_buf_size

\* C17: for a call whose response is longer than send_buf_size the server
\* sends one error reply with code -32603 to the peer, leaves the reply buffer
\* and its offset as they are, and goes on to the next line.
C17_OversizedResponse ==
    [][OversizedCall =>
        /\ Len(srv_wire') = Len(srv_wire) + 1
        /\ SubSeq(srv_wire', 1, Len(srv_wire)) = srv_wire
        /\ srv_wire'[Len(srv_wire')].kind = "error"
        /\ srv_wire'[Len(srv_wire')].to = srv_peer
        /\ srv_wire'[Len(srv_wire')].data =
              "{\"jsonrpc\":\"2.0\",\"id\":null,\"error\":{\"code\":-32603,\"message\":\"response size exceeds maximum UDP packet size\"}}"
        /\ srv_send_buf' = srv_send_buf
        /\ send_buf_offset' = send_buf_offset
        /\ srv_pc' = "lines"
        /\ srv_i' = srv_i + 1]_vars

\* the echo of the first line is in the reply buffer and the second line's
\* echo was too large: one error reply went out and the buffer is as it was
C17_Witness ==
    /\ srv_pc = "lines"
    /\ srv_lines = <<REQ_CALL, REQ_PING>>
    /\ srv_i = 3
    /\ Len(srv_wire) = 1
    /\ srv_wire[1].code = "-32603"
    /\ srv_send_buf = Class[REQ_CALL].echo
    /\ send_buf_offset = send_buf_size

\* C18: the reply buffer is empty when the server waits for a datagram;
\* everything the server sends while it processes a datagram goes to that
\* datagram's peer; and when the datagram is done, before the next one is
\* received, the echo of every fitting call was sent to that peer and what
\* the reply buffer held last was flushed.
C18_ReplyBufferPerDatagram ==
    /\ srv_pc = "recv" => (send_buf_offset = 0 /\ srv_send_buf = "")
    /\ \A j \in DOMAIN srv_wire : srv_wire[j].to = srv_peer
    /\ srv_pc = "end" =>
          /\ send_buf_offset # 0 =>
                /\ IsSentReply(srv_wire[Len(srv_wire)])
                /\ srv_wire[Len(srv_wire)].data = srv_send_buf
          /\ \A k \in DOMAIN srv_lines :
                FittingCall(k) =>
                    \E j \in DOMAIN srv_wire :
                        /\ IsSentReply(srv_wire[j])
                        /\ srv_wire[j].to = srv_peer
                        /\ Class[srv_lines[k]].echo \in Range(SplitNl(srv_wire[j].data))

\* three calls from peer2 were answered in two datagrams, both sent to peer2
C18_Witness ==
    /\ srv_pc = "end"
    /\ srv_peer = "peer2"
    /\ srv_lines = <<REQ_CALL, REQ_CALL, REQ_CALL>>
    /\ Len(srv_wire) = 2
    /\ \A j \in DOMAIN srv_wire : IsSentReply(srv_wire[j]) /\ srv_wire[j].to = "peer2"

\* C19: whatever send_to reports for an error reply, the server goes on (to
\* the next line, or to the next datagram); a send of the reply buffer that
\* fails or is short ends the server in error, and only such a send does.
C19_SendFailurePolicy ==
    [][Len(srv_wire') = Len(srv_wire) + 1 =>
        LET w == srv_wire'[Len(srv_wire')]
        IN  /\ w.kind = "error" =>
                  /\ srv_pc' \in {"lines", "end"}
                  /\ srv_pc = "lines" => srv_i' = srv_i + 1
            /\ w.kind = "reply" =>
                  (srv_pc' = "error" <=> w.outcome \in {"err", "short"})]_vars

\* the send of an error reply failed and the datagram was processed to its
\* end all the same: a later call's echo was sent
C19_Witness ==
    /\ srv_pc = "end"
    /\ Len(srv_wire) = 2
    /\ srv_wire[1].kind = "error" /\ srv_wire[1].outcome = "err"
    /\ IsSentReply(srv_wire[2])

RECURSIVE EchoesUpTo(_)
\* the echoes of the fitting calls among lines 1 .. k of the datagram, in the
\* order of the lines
EchoesUpTo(k) ==
    IF k = 0 THEN <<>>
    ELSE EchoesUpTo(k - 1)
            \o (IF FittingCall(k) THEN <<Class[srv_lines[k]].echo>> ELSE <<>>)

\* the entries the reply buffer holds
BufferedEntries == IF srv_send_buf = "" THEN <<>> ELSE SplitNl(srv_send_buf)

\* the current line is one the server answers with an error reply
ErrorLine ==
    /\ srv_pc = "lines"
    /\ srv_i <= Len(srv_lines)
    /\ ErrorCodeOf(srv_i) # ""

\* C22: while a datagram is processed, the responses already sent followed by
\* those still in the reply buffer are the echoes of the calls processed so
\* far, in the order of their lines; when the datagram is done they were all
\* sent in that order.  An error reply goes to the wire in the step that
\* processes its line, while the reply buffer keeps what it holds.
C22_ReplyOrdering ==
    /\ [](/\ srv_pc = "lines" =>
                TransmittedEntries \o BufferedEntries = EchoesUpTo(srv_i - 1)
          /\ srv_pc = "end" =>
                TransmittedEntries = EchoesUpTo(Len(srv_lines)))
    /\ [][ErrorLine =>
            /\ Len(srv_wire') = Len(srv_wire) + 1
            /\ SubSeq(srv_wire', 1, Len(srv_wire)) = srv_wire
            /\ srv_wire'[Len(srv_wire')].kind = "error"
            /\ srv_wire'[Len(srv_wire')].line = srv_i
            /\ srv_send_buf' = srv_send_buf]_vars

\* the error reply for the second line went out before the datagram that
\* carries the echo of the first line, and the two echoes are in line order
C22_Witness ==
    /\ srv_pc = "end"
    /\ srv_lines = <<REQ_CALL, REQ_BATCH, REQ_CALL>>
    /\ Len(srv_wire) = 2
    /\ srv_wire[1].kind = "error" /\ srv_wire[1].line = 2
    /\ IsSentReply(srv_wire[2])
    /\ SplitNl(srv_wire[2].data) = <<Class[REQ_CALL].echo, Class[REQ_CALL].echo>>

(***************************************************************************)
(* Properties of a client run against the echo server.                     *)
(***************************************************************************)
IsCallLine(l) == InputClass[l].class = "call"

\* the echoes of the requests with an id among the lines read, in input order
ExpectedEchoes ==
    Bind(SelectSeq(c_input, IsCallLine), LAMBDA calls :
        [k \in DOMAIN calls |-> InputClass[calls[k]].echo])

Occurrences(seq, x) == Cardinality({k \in DOMAIN seq : seq[k] = x})

\* C21: over a channel that neither loses, duplicates nor reorders datagrams,
\* with valid input lines no longer than the client's capacity whose echoes
\* fit both capacities, the client never fails, a finished run has emitted
\* exactly one response per request with an id, and no reply datagram of the
\* server is longer than the client's receive buffer of buf_size bytes.
C21_EndToEnd ==
    /\ c_pc # "error"
    /\ c_pc = "done" =>
          /\ Len(c_output) = Len(ExpectedEchoes)
          /\ \A k \in DOMAIN c_output :
                Occurrences(c_output, c_output[k]) = Occurrences(ExpectedEchoes, c_output[k])
    /\ \A k \in DOMAIN net_replies : Len(net_replies[k]) <= buf_size

(***************************************************************************)
(* Properties of the packers of both commands.                             *)
(***************************************************************************)
\* the client appended the line it read to its send buffer
ClientAppended ==
    /\ c_pc = "send" /\ c_pc' = "send"
    /\ Len(c_input') = Len(c_input) + 1

\* the server appended the echo of the current line to its reply buffer
ServerAppended ==
    /\ srv_pc = "lines" /\ srv_pc' = "lines"
    /\ srv_i <= Len(srv_lines)
    /\ FittingCall(srv_i)

\* an entry of n bytes fits a buffer holding len bytes, of capacity cap
Fits(len, n, cap) == IF len = 0 THEN n <= cap ELSE len + 1 + n <= cap

\* the two 30-byte requests of scenario D
ScenarioD == <<REQ_NOTIFY, REQ_NOTIFY>>

\* C11: an entry that fits the buffer (with its separator if the buffer is not
\* empty) is appended without a flush; an entry that does not is preceded by
\* exactly one flush of the buffer and starts the emptied buffer; this in the
\* client and in the server.  Two 30-byte requests with capacity 50 leave the
\* client in two datagrams: one intermediate flush and the final one.
C11_PackerBoundary ==
    /\ [](  (c_pc = "done" /\ buf_size = 50 /\ c_input = ScenarioD)
                => c_sent = ScenarioD)
    /\ [][/\ ClientAppended =>
               LET line == c_input'[Len(c_input')]
               IN  IF Fits(Len(send_buf), Len(line), buf_size)
                   THEN /\ c_sent' = c_sent
                        /\ send_buf' = IF send_buf = "" THEN line
                                       ELSE send_buf \o "\n" \o line
                   ELSE /\ c_sent' = Append(c_sent, send_buf)
                        /\ send_buf' = line
          /\ ServerAppended =>
               LET echo == Class[srv_lines[srv_i]].echo
               IN  IF Fits(send_buf_offset, Len(echo), send_buf_size)
                   THEN /\ srv_wire' = srv_wire
                        /\ srv_send_buf' = IF send_buf_offset = 0 THEN echo
                                           ELSE srv_send_buf \o "\n" \o echo
                        /\ send_buf_offset' = Len(srv_send_buf')
                   ELSE /\ Len(srv_wire') = Len(srv_wire) + 1
                        /\ SubSeq(srv_wire', 1, Len(srv_wire)) = srv_wire
                        /\ srv_wire'[Len(srv_wire')].kind = "reply"
                        /\ srv_wire'[Len(srv_wire')].data = srv_send_buf
                        /\ srv_send_buf' = echo
                        /\ send_buf_offset' = Len(echo)]_vars

\* scenario D has run: the two requests went out in two datagrams
C11_Witness ==
    /\ c_pc = "done"
    /\ buf_size = 50
    /\ c_input = ScenarioD
    /\ Len(c_sent) = 2

=============================================================================
